---------------------------- MODULE Spec2Model ----------------------------
(***************************************************************************)
(* The parcel-delivery REST backend of src/index.js (its current revision, *)
(* lines 1-569): Express routes over five MongoDB collections.  Every      *)
(* request is an independently suspending unit of work; it suspends at     *)
(* each store call, so one action below is one store call together with    *)
(* the local computation that follows it up to the next store call.        *)
(***************************************************************************)
EXTENDS Integers, Sequences, FiniteSets, TLC

VARIABLES users, riders, parcels, payments, tracking, reqs, nreq, oid

vars == <<users, riders, parcels, payments, tracking, reqs, nreq, oid>>
store == <<users, riders, parcels, payments, tracking>>

\* ------------------------------------------------------------- bounds
\* Requests issued in one behaviour of the payment workflow.
MaxPayReqs == 3

\* Requests issued in one behaviour of the user and rider workflows.
MaxAdminReqs == 2

\* Requests issued in one behaviour of the payment workflow in which requests
\* do not overlap.
MaxPaySeqReqs == 3

\* Requests issued in one behaviour of the user and rider workflows in which
\* requests do not overlap.
MaxAdminSeqReqs == 2

\* Requests issued in one behaviour of the tracking log.
MaxTrackReqs == 3

\* Requests issued in one behaviour of the payment workflow over a store that
\* may fail.
MaxPayFailReqs == 3

\* Requests issued in one behaviour of the user and rider workflows over a
\* store that may fail.
MaxRiderFailReqs == 2

\* Requests that may be in flight at the same time.
Slots == {"s1", "s2"}

\* ------------------------------------------------------------- values
\* JavaScript's undefined: an absent field, an absent header, a missing body key.
None == "none"

Emails == {"a@x", "b@x", "c@x"}

\* ObjectIds are numbers here; a request names one by its string form.
OidSpace == 1 .. 9

\* new ObjectId(str): the id, or 0 when the constructor throws.
ParseOid(str) ==
  IF \E n \in OidSpace : ToString(n) = str
  THEN CHOOSE n \in OidSpace : ToString(n) = str
  ELSE 0

\* new Date(): time advances with the requests the server has received.
Now == nreq

\* new Date() and new Date().toISOString() are values of different types.
DateOf(t) == [kind |-> "Date", t |-> t]
IsoOf(t) == [kind |-> "ISO", t |-> t]

\* --------------------------------------------------- identity verifier
\* admin.auth().verifyIdToken(token): the claims of the tokens it accepts.
TokenClaims ==
  [tok \in {"tok_a", "tok_b", "tok_c", "tok_anon"} |->
     CASE tok = "tok_a" -> [email |-> "a@x"]
       [] tok = "tok_b" -> [email |-> "b@x"]
       [] tok = "tok_c" -> [email |-> "c@x"]
       [] OTHER -> [email |-> None]]

\* An Authorization header, split at spaces; <<>> is no header.
NoHeader == <<>>
Bearer(tok) == <<"Bearer", tok>>

\* req.decoded before any middleware has set it.
Undecoded == [set |-> FALSE, email |-> None]

\* ---------------------------------------------------------- the routes
\* The routes in the order index.js registers them.
Routes ==
  << [method |-> "POST", path |-> "/users", mw |-> <<>>, handler |-> "upsertLogin"],
     [method |-> "GET", path |-> "/users/role-by-email/:email", mw |-> <<>>,
      handler |-> "getRoleByEmail"],
     [method |-> "GET", path |-> "/users/search/:keyword",
      mw |-> <<"verifyFbToken", "verifyAdmin">>, handler |-> "searchUsers"],
     [method |-> "GET", path |-> "/users/role/:role",
      mw |-> <<"verifyFbToken", "verifyAdmin">>, handler |-> "listByRole"],
     [method |-> "PATCH", path |-> "/users/admin/:email",
      mw |-> <<"verifyFbToken", "verifyAdmin">>, handler |-> "makeAdmin"],
     [method |-> "PATCH", path |-> "/users/remove-admin/:email",
      mw |-> <<"verifyFbToken", "verifyAdmin">>, handler |-> "removeAdmin"],
     [method |-> "GET", path |-> "/parcels", mw |-> <<>>, handler |-> "listParcels"],
     [method |-> "GET", path |-> "/parcels/:id", mw |-> <<>>, handler |-> "getParcel"],
     [method |-> "GET", path |-> "/parcels", mw |-> <<>>, handler |-> "listParcels2"],
     [method |-> "POST", path |-> "/parcels", mw |-> <<>>, handler |-> "createParcel"],
     [method |-> "DELETE", path |-> "/parcels/:id", mw |-> <<>>,
      handler |-> "deleteParcel"],
     [method |-> "POST", path |-> "/riders", mw |-> <<>>, handler |-> "applyRider"],
     [method |-> "GET", path |-> "/riders/pending",
      mw |-> <<"verifyFbToken", "verifyAdmin">>, handler |-> "listPending"],
     [method |-> "GET", path |-> "/riders/active", mw |-> <<>>,
      handler |-> "listActiveOpen"],
     [method |-> "PATCH", path |-> "/riders/approve/:id",
      mw |-> <<"verifyFbToken", "verifyAdmin">>, handler |-> "approveRider"],
     [method |-> "DELETE", path |-> "/riders/cancel/:id",
      mw |-> <<"verifyFbToken", "verifyAdmin">>, handler |-> "cancelRider"],
     [method |-> "GET", path |-> "/riders/active",
      mw |-> <<"verifyFbToken", "verifyAdmin">>, handler |-> "listActive"],
     [method |-> "PATCH", path |-> "/riders/deactivate/:id",
      mw |-> <<"verifyFbToken", "verifyAdmin">>, handler |-> "deactivateRider"],
     [method |-> "POST", path |-> "/tracking", mw |-> <<>>, handler |-> "recordTracking"],
     [method |-> "POST", path |-> "/create-payment-intent", mw |-> <<>>,
      handler |-> "createPaymentIntent"],
     [method |-> "GET", path |-> "/payments", mw |-> <<>>, handler |-> "listPayments"],
     [method |-> "POST", path |-> "/payments", mw |-> <<"verifyFbToken">>,
      handler |-> "recordPayment"] >>
\* Express serves a request by the first registered route of its method and path.
Dispatch(method, path) ==
  Routes[CHOOSE i \in 1 .. Len(Routes) :
           /\ Routes[i].method = method
           /\ Routes[i].path = path
           /\ \A j \in 1 .. (i - 1) :
                ~(Routes[j].method = method /\ Routes[j].path = path)]

\* ----------------------------------------------------------- the store
\* The index of the first document of a collection with this _id, or 0.
IdxById(coll, id) ==
  IF \E i \in 1 .. Len(coll) : coll[i]._id = id
  THEN CHOOSE i \in 1 .. Len(coll) :
         coll[i]._id = id /\ \A j \in 1 .. (i - 1) : coll[j]._id # id
  ELSE 0

\* The index of the first document of a collection with this email, or 0.
IdxByEmail(coll, email) ==
  IF \E i \in 1 .. Len(coll) : coll[i].email = email
  THEN CHOOSE i \in 1 .. Len(coll) :
         coll[i].email = email /\ \A j \in 1 .. (i - 1) : coll[j].email # email
  ELSE 0

\* A deleteOne that removes the i-th document only while it is pending.
RemovePendingAt(coll, i) ==
  IF coll[i].status = "pending"
  THEN [j \in 1 .. (Len(coll) - 1) |-> IF j < i THEN coll[j] ELSE coll[j + 1]]
  ELSE coll

\* deleteOne: the collection without its i-th document.
RemoveAt(coll, i) ==
  [j \in 1 .. (Len(coll) - 1) |-> IF j < i THEN coll[j] ELSE coll[j + 1]]

\* sort({ key: -1 }): whether document u must come before document v.  The
\* documents modelled carry created_at (users) and paid_at (payments); a find
\* without a sort, or sorted by a field they lack, orders nothing.
SortsBefore(key, u, v) ==
  CASE key = "created_at" -> u.created_at.t > v.created_at.t
    [] key = "paid_at" -> u.paid_at.t > v.paid_at.t
    [] OTHER -> FALSE

\* The orders in which a find may return the documents at these indices under
\* such a sort (the store promises no order among documents the sort does not
\* tell apart).
Orders(coll, idx, key) ==
  LET n == Cardinality(idx)
  IN {out \in [1 .. n -> idx] :
        /\ \A i \in idx : \E k \in 1 .. n : out[k] = i
        /\ \A j, k \in 1 .. n :
             j < k => ~SortsBefore(key, coll[out[k]], coll[out[j]])}

\* toArray(): the documents of a collection in such an order.
Docs(coll, order) == [k \in DOMAIN order |-> coll[order[k]]]

\* ------------------------------------------------------------ requests
Idle == [pc |-> "idle"]

NoLoc == [k |-> None]

\* res.status(status).send(...): the request is over.
Respond(r, status, msg, data) ==
  [r EXCEPT !.pc = "done", !.status = status, !.msg = msg, !.data = data]

\* next(): on to the next middleware of the route, or to its handler.
CallNext(r) ==
  [r EXCEPT !.chain = Tail(r.chain),
            !.pc = IF Tail(r.chain) = <<>> THEN "h1" ELSE "mw"]

Free(s) == reqs[s].pc \in {"idle", "done"}

\* No request is in flight.
Quiet == \A s \in Slots : Free(s)

\* A request arrives and is dispatched to its route; seq numbers the requests
\* in their order of arrival.
Arrive(s, q) ==
  /\ Free(s)
  /\ LET route == Dispatch(q.method, q.path)
     IN reqs' = [reqs EXCEPT ![s] =
                   [seq |-> nreq + 1, method |-> q.method, path |-> q.path,
                    hdr |-> q.hdr,
                    arg |-> q.arg, chain |-> route.mw, handler |-> route.handler,
                    pc |-> IF route.mw = <<>> THEN "h1" ELSE "mw",
                    decoded |-> Undecoded, loc |-> NoLoc,
                    status |-> 0, msg |-> None, data |-> None]]
  /\ nreq' = nreq + 1
  /\ UNCHANGED <<store, oid>>

\* ---------------------------------------------------------- middleware
\* verifyFbToken's outcome for a request.
VerifyFbTokenResult(r) ==
  IF r.hdr = NoHeader
  THEN Respond(r, 401, "Unauthorized access: No authorization header", None)
  ELSE IF Len(r.hdr) < 2
  THEN Respond(r, 401, "Unauthorized access: No token found", None)
  ELSE IF r.hdr[2] \in DOMAIN TokenClaims
  THEN CallNext([r EXCEPT !.decoded =
                   [set |-> TRUE, email |-> TokenClaims[r.hdr[2]].email]])
  ELSE Respond(r, 403, "Forbidden access: Invalid token", None)

VerifyFbToken(s) ==
  /\ reqs[s].pc = "mw"
  /\ Head(reqs[s].chain) = "verifyFbToken"
  /\ reqs' = [reqs EXCEPT ![s] = VerifyFbTokenResult(reqs[s])]
  /\ UNCHANGED <<store, nreq, oid>>

\* A verifyAdmin that lets every stored user pass.
VerifyAdminAnyUser(r, us) ==
  LET userEmail == IF r.decoded.set THEN r.decoded.email ELSE None
  IN IF userEmail = None
     THEN Respond(r, 401, "Unauthorized: No email found in token", None)
     ELSE IF IdxByEmail(us, userEmail) = 0
     THEN Respond(r, 404, "User not found", None)
     ELSE CallNext(r)

\* verifyAdmin's outcome for a request, given the users collection it reads.
VerifyAdminResult(r, us) ==
  LET userEmail == IF r.decoded.set THEN r.decoded.email ELSE None
      i == IdxByEmail(us, userEmail)
  IN IF userEmail = None
     THEN Respond(r, 401, "Unauthorized: No email found in token", None)
     ELSE IF i = 0
     THEN Respond(r, 404, "User not found", None)
     ELSE IF us[i].role # "admin"
     THEN Respond(r, 403, "Forbidden: Admins only", None)
     ELSE CallNext(r)

VerifyAdmin(s) ==
  /\ reqs[s].pc = "mw"
  /\ Head(reqs[s].chain) = "verifyAdmin"
  /\ reqs' = [reqs EXCEPT ![s] = VerifyAdminResult(reqs[s], users)]
  /\ UNCHANGED <<store, nreq, oid>>

\* ------------------------------------------------------------ payments
\* !parcelId || !transactionId || !email || !amount
PaymentFieldMissing(b) ==
  b.parcelId = None \/ b.transactionId = None \/ b.email = None \/ b.amount = 0

\* A $set of POST /payments that forgets payment_status.
MarkPaidStatusOnly(p, transactionId) ==
  [p EXCEPT !.status = "Paid", !.transactionId = transactionId]

\* The $set of POST /payments applied to a parcel document.
MarkPaid(p, transactionId) ==
  [p EXCEPT !.status = "Paid", !.payment_status = "Paid",
            !.transactionId = transactionId]

\* updateOne's matchedCount taken for its modifiedCount.
MatchedCount(coll, i, doc) == IF i # 0 THEN 1 ELSE 0

\* updateOne's modifiedCount: a matched document that the $set leaves as it
\* was is not modified.
ModifiedCount(coll, i, doc) == IF i # 0 /\ coll[i] # doc THEN 1 ELSE 0

\* POST /payments up to and including its updateOne (step 1).
RecordPayment1(s) ==
  /\ reqs[s].pc = "h1"
  /\ reqs[s].handler = "recordPayment"
  /\ LET r == reqs[s]
         b == r.arg
         id == ParseOid(b.parcelId)
         i == IdxById(parcels, id)
         doc == IF i = 0 THEN Idle ELSE MarkPaid(parcels[i], b.transactionId)
         n == ModifiedCount(parcels, i, doc)
     IN IF PaymentFieldMissing(b)
        THEN /\ reqs' = [reqs EXCEPT ![s] =
                           Respond(r, 400, "Missing required payment fields.", None)]
             /\ UNCHANGED parcels
        ELSE IF id = 0
        THEN /\ reqs' = [reqs EXCEPT ![s] =
                           Respond(r, 500, "Payment processing failed", None)]
             /\ UNCHANGED parcels
        ELSE /\ parcels' = IF i = 0 THEN parcels ELSE [parcels EXCEPT ![i] = doc]
             /\ reqs' = [reqs EXCEPT ![s] =
                           IF n = 0
                           THEN Respond(r, 404, "Parcel not found or already paid.",
                                        None)
                           ELSE [r EXCEPT !.pc = "h2",
                                          !.loc = [modifiedCount |-> n]]]
  /\ UNCHANGED <<users, riders, payments, tracking, nreq, oid>>

\* parcel?.trackingId || ""
TrackingIdOf(coll, i) ==
  IF i = 0 THEN "" ELSE IF coll[i].trackingId = None THEN "" ELSE coll[i].trackingId

\* POST /payments: the findOne of the parcel (step 2) and the payment record
\* built from it.
RecordPayment2(s) ==
  /\ reqs[s].pc = "h2"
  /\ reqs[s].handler = "recordPayment"
  /\ LET r == reqs[s]
         b == r.arg
         i == IdxById(parcels, ParseOid(b.parcelId))
     IN reqs' = [reqs EXCEPT ![s] =
                   [r EXCEPT !.pc = "h3",
                             !.loc = [modifiedCount |-> r.loc.modifiedCount,
                                      parcelId |-> b.parcelId,
                                      trackingId |-> TrackingIdOf(parcels, i),
                                      transactionId |-> b.transactionId,
                                      email |-> b.email,
                                      amount |-> b.amount,
                                      paid_at |-> DateOf(Now)]]]
  /\ UNCHANGED <<store, nreq, oid>>

\* POST /payments: the insertOne of the payment record (step 3) and the reply.
RecordPayment3(s) ==
  /\ reqs[s].pc = "h3"
  /\ reqs[s].handler = "recordPayment"
  /\ LET r == reqs[s]
         rec == [_id |-> oid + 1, parcelId |-> r.loc.parcelId,
                 trackingId |-> r.loc.trackingId,
                 transactionId |-> r.loc.transactionId, email |-> r.loc.email,
                 amount |-> r.loc.amount, paid_at |-> r.loc.paid_at]
     IN /\ payments' = Append(payments, rec)
        /\ oid' = oid + 1
        /\ reqs' = [reqs EXCEPT ![s] =
                      Respond(r, 200, "Payment recorded and parcel marked as paid.",
                              oid + 1)]
  /\ UNCHANGED <<users, riders, parcels, tracking, nreq>>

\* find({ email }).sort({ paid_at: -1 }).toArray()
PaymentsOf(coll, email) ==
  {Docs(coll, o) :
     o \in Orders(coll, {i \in 1 .. Len(coll) : coll[i].email = email}, "paid_at")}

\* GET /payments: req.decoded.email throws when no middleware set req.decoded.
ListPaymentsResults(r, coll) ==
  IF ~r.decoded.set
  THEN {Respond(r, 500, "Failed to fetch payments", None)}
  ELSE IF r.decoded.email # r.arg.email
  THEN {Respond(r, 403, "Forbidden access", None)}
  ELSE {Respond(r, 200, None, out) : out \in PaymentsOf(coll, r.arg.email)}

ListPayments(s) ==
  /\ reqs[s].pc = "h1"
  /\ reqs[s].handler = "listPayments"
  /\ \E res \in ListPaymentsResults(reqs[s], payments) :
       reqs' = [reqs EXCEPT ![s] = res]
  /\ UNCHANGED <<store, nreq, oid>>

\* ------------------------------------------------------------- parcels
\* POST /parcels: the body is inserted as it is.
CreateParcel(s) ==
  /\ reqs[s].pc = "h1"
  /\ reqs[s].handler = "createParcel"
  /\ LET r == reqs[s]
         b == r.arg
     IN /\ parcels' = Append(parcels,
                             [_id |-> oid + 1, created_by |-> b.created_by,
                              status |-> b.status,
                              payment_status |-> b.payment_status,
                              transactionId |-> b.transactionId,
                              trackingId |-> b.trackingId])
        /\ oid' = oid + 1
        /\ reqs' = [reqs EXCEPT ![s] =
                      Respond(r, 201, "Parcel added successfully", oid + 1)]
  /\ UNCHANGED <<users, riders, payments, tracking, nreq>>

\* DELETE /parcels/:id
DeleteParcel(s) ==
  /\ reqs[s].pc = "h1"
  /\ reqs[s].handler = "deleteParcel"
  /\ LET r == reqs[s]
         id == ParseOid(r.arg.id)
         i == IdxById(parcels, id)
     IN IF id = 0
        THEN /\ reqs' = [reqs EXCEPT ![s] = Respond(r, 500, "Delete failed", None)]
             /\ UNCHANGED parcels
        ELSE /\ parcels' = IF i = 0 THEN parcels ELSE RemoveAt(parcels, i)
             /\ reqs' = [reqs EXCEPT ![s] =
                           Respond(r, 200, None, IF i = 0 THEN 0 ELSE 1)]
  /\ UNCHANGED <<users, riders, payments, tracking, nreq, oid>>

\* --------------------------------------------------------------- users
\* A $set of POST /users that also puts the role back to its default.
SetLastLoginAndRole(u, t) == [u EXCEPT !.last_login = IsoOf(t), !.role = "user"]

\* The $set of POST /users for a user who exists already.
SetLastLogin(u, t) == [u EXCEPT !.last_login = IsoOf(t)]

\* { ...req.body, created_at: new Date(), last_login: new Date() }
NewUser(b, t) ==
  [email |-> b.email, role |-> b.role, created_at |-> DateOf(t),
   last_login |-> DateOf(t)]

\* POST /users: the findOne by email.
UpsertLogin1(s) ==
  /\ reqs[s].pc = "h1"
  /\ reqs[s].handler = "upsertLogin"
  /\ reqs' = [reqs EXCEPT ![s] =
                [reqs[s] EXCEPT !.pc = "h2",
                                !.loc = [userExists |->
                                           IdxByEmail(users, reqs[s].arg.email) # 0]]]
  /\ UNCHANGED <<store, nreq, oid>>

\* POST /users: the updateOne of last_login, or the insertOne of the new user.
UpsertLogin2(s) ==
  /\ reqs[s].pc = "h2"
  /\ reqs[s].handler = "upsertLogin"
  /\ LET r == reqs[s]
         i == IdxByEmail(users, r.arg.email)
     IN IF r.loc.userExists
        THEN /\ users' = IF i = 0 THEN users
                         ELSE [users EXCEPT ![i] = SetLastLogin(users[i], Now)]
             /\ reqs' = [reqs EXCEPT ![s] =
                           Respond(r, 200, "User already exists. Updated last_login.",
                                   [inserted |-> FALSE])]
        ELSE /\ users' = Append(users, NewUser(r.arg, Now))
             /\ reqs' = [reqs EXCEPT ![s] =
                           Respond(r, 200, None, [acknowledged |-> TRUE])]
  /\ UNCHANGED <<riders, parcels, payments, tracking, nreq, oid>>

\* The same updateOne with { upsert: true }: no match inserts a document.
SetRoleUpsert(us, email, role) ==
  LET i == IdxByEmail(us, email)
  IN IF i = 0 THEN Append(us, [email |-> email, role |-> role])
     ELSE [us EXCEPT ![i].role = role]

\* updateOne({ email }, { $set: { role } }): the collection afterwards.
SetRole(us, email, role) ==
  LET i == IdxByEmail(us, email)
  IN IF i = 0 THEN us ELSE [us EXCEPT ![i].role = role]

\* What updateOne reports for a collection before and after it.
UpdateResult(before, after, i) ==
  [matchedCount |-> IF i = 0 THEN 0 ELSE 1,
   modifiedCount |-> IF before = after THEN 0 ELSE 1]

\* PATCH /users/admin/:email and PATCH /users/remove-admin/:email
SetAdmin(s) ==
  /\ reqs[s].pc = "h1"
  /\ reqs[s].handler \in {"makeAdmin", "removeAdmin"}
  /\ LET r == reqs[s]
         role == IF r.handler = "makeAdmin" THEN "admin" ELSE "user"
         after == SetRole(users, r.arg.email, role)
     IN /\ users' = after
        /\ reqs' = [reqs EXCEPT ![s] =
                      Respond(r, 200, None,
                              UpdateResult(users, after,
                                           IdxByEmail(users, r.arg.email)))]
  /\ UNCHANGED <<riders, parcels, payments, tracking, nreq, oid>>

\* new RegExp(keyword, "i") tested on an email, for the keywords requests use.
MatchesKeyword(keyword, email) ==
  CASE keyword = "@X" -> TRUE
    [] keyword = "B@" -> email = "b@x"
    [] OTHER -> FALSE

\* role.toLowerCase(), for the role names requests use.
ToLowerCase(role) == IF role = "Rider" THEN "rider" ELSE role

\* GET /users/search/:keyword and GET /users/role/:role
ReadUsersResults(r, us) ==
  IF r.handler = "searchUsers"
  THEN LET idx == {i \in 1 .. Len(us) : MatchesKeyword(r.arg.keyword, us[i].email)}
       IN IF idx = {}
          THEN {Respond(r, 404, "No matching users found", None)}
          ELSE {Respond(r, 200, None, Docs(us, o)) : o \in Orders(us, idx, "none")}
  ELSE LET role == ToLowerCase(r.arg.role)
           idx == {i \in 1 .. Len(us) : us[i].role = role}
       IN IF role \notin {"admin", "rider", "user"}
          THEN {Respond(r, 400, "Invalid role type.", None)}
          ELSE {Respond(r, 200, None, Docs(us, o)) : o \in Orders(us, idx, "created_at")}

ReadUsers(s) ==
  /\ reqs[s].pc = "h1"
  /\ reqs[s].handler \in {"searchUsers", "listByRole"}
  /\ \E res \in ReadUsersResults(reqs[s], users) : reqs' = [reqs EXCEPT ![s] = res]
  /\ UNCHANGED <<store, nreq, oid>>

\* -------------------------------------------------------------- riders
\* POST /riders: the body is inserted as it is.
ApplyRider(s) ==
  /\ reqs[s].pc = "h1"
  /\ reqs[s].handler = "applyRider"
  /\ LET r == reqs[s]
     IN /\ riders' = Append(riders, [_id |-> oid + 1, email |-> r.arg.email,
                                     status |-> r.arg.status])
        /\ oid' = oid + 1
        /\ reqs' = [reqs EXCEPT ![s] =
                      Respond(r, 200, None, [insertedId |-> oid + 1])]
  /\ UNCHANGED <<users, parcels, payments, tracking, nreq>>

\* GET /riders/pending and both registrations of GET /riders/active
ListRidersResults(r, rs) ==
  LET status == IF r.handler = "listPending" THEN "pending" ELSE "approved"
      idx == {i \in 1 .. Len(rs) : rs[i].status = status}
  IN {Respond(r, 200, None, Docs(rs, o)) : o \in Orders(rs, idx, "none")}

ListRiders(s) ==
  /\ reqs[s].pc = "h1"
  /\ reqs[s].handler \in {"listPending", "listActiveOpen", "listActive"}
  /\ \E res \in ListRidersResults(reqs[s], riders) : reqs' = [reqs EXCEPT ![s] = res]
  /\ UNCHANGED <<store, nreq, oid>>

\* updateOne({ _id }, { $set: { status } }): the collection afterwards.
SetStatus(rs, id, status) ==
  LET i == IdxById(rs, id)
  IN IF i = 0 THEN rs ELSE [rs EXCEPT ![i].status = status]

\* PATCH /riders/approve/:id: the updateOne of the rider's status (step a).
ApproveRider1(s) ==
  /\ reqs[s].pc = "h1"
  /\ reqs[s].handler = "approveRider"
  /\ LET r == reqs[s]
         id == ParseOid(r.arg.id)
         after == SetStatus(riders, id, "approved")
     IN IF id = 0
        THEN /\ reqs' = [reqs EXCEPT ![s] =
                           Respond(r, 500, "Failed to approve rider or update role",
                                   None)]
             /\ UNCHANGED riders
        ELSE /\ riders' = after
             /\ reqs' = [reqs EXCEPT ![s] =
                           [r EXCEPT !.pc = "h2",
                                     !.loc = [riderResult |->
                                                UpdateResult(riders, after,
                                                             IdxById(riders, id))]]]
  /\ UNCHANGED <<users, parcels, payments, tracking, nreq, oid>>

\* rider?.email
RiderEmail(rs, id) ==
  LET i == IdxById(rs, id) IN IF i = 0 THEN None ELSE rs[i].email

\* The reply of PATCH /riders/approve/:id.
Approved(r) ==
  Respond(r, 200, "Rider approved & role updated",
          [success |-> TRUE, riderResult |-> r.loc.riderResult])

\* PATCH /riders/approve/:id: the findOne of the rider (step b).
ApproveRider2(s) ==
  /\ reqs[s].pc = "h2"
  /\ reqs[s].handler = "approveRider"
  /\ LET r == reqs[s]
         email == RiderEmail(riders, ParseOid(r.arg.id))
     IN reqs' = [reqs EXCEPT ![s] =
                   IF email = None
                   THEN Approved(r)
                   ELSE [r EXCEPT !.pc = "h3",
                                  !.loc = [riderResult |-> r.loc.riderResult,
                                           email |-> email]]]
  /\ UNCHANGED <<store, nreq, oid>>

\* PATCH /riders/approve/:id: the updateOne of the user's role (step c).
ApproveRider3(s) ==
  /\ reqs[s].pc = "h3"
  /\ reqs[s].handler = "approveRider"
  /\ users' = SetRole(users, reqs[s].loc.email, "rider")
  /\ reqs' = [reqs EXCEPT ![s] = Approved(reqs[s])]
  /\ UNCHANGED <<riders, parcels, payments, tracking, nreq, oid>>

\* DELETE /riders/cancel/:id
CancelRider(s) ==
  /\ reqs[s].pc = "h1"
  /\ reqs[s].handler = "cancelRider"
  /\ LET r == reqs[s]
         i == IdxById(riders, ParseOid(r.arg.id))
     IN /\ ParseOid(r.arg.id) # 0
        /\ riders' = IF i = 0 THEN riders ELSE RemoveAt(riders, i)
        /\ reqs' = [reqs EXCEPT ![s] =
                      Respond(r, 200, None,
                              [deletedCount |-> IF i = 0 THEN 0 ELSE 1])]
  /\ UNCHANGED <<users, parcels, payments, tracking, nreq, oid>>

\* PATCH /riders/deactivate/:id
DeactivateRider(s) ==
  /\ reqs[s].pc = "h1"
  /\ reqs[s].handler = "deactivateRider"
  /\ LET r == reqs[s]
         id == ParseOid(r.arg.id)
         after == SetStatus(riders, id, "inactive")
     IN IF id = 0
        THEN /\ reqs' = [reqs EXCEPT ![s] =
                           Respond(r, 500, "Failed to deactivate rider", None)]
             /\ UNCHANGED riders
        ELSE /\ riders' = after
             /\ reqs' = [reqs EXCEPT ![s] =
                           Respond(r, 200, None,
                                   UpdateResult(riders, after, IdxById(riders, id)))]
  /\ UNCHANGED <<users, parcels, payments, tracking, nreq, oid>>

\* ------------------------------------------------------------ tracking
\* !v for a string or a missing field: undefined and "" are falsy.
Falsy(v) == v \in {None, ""}

\* !trackingId || !parcelId || !status
TrackingFieldMissing(b) == Falsy(b.trackingId) \/ Falsy(b.parcelId) \/ Falsy(b.status)

\* A tracking entry that takes the location as it comes.
LocationAsSupplied(location) == location

\* location || "Unknown"
LocationOrUnknown(location) == IF Falsy(location) THEN "Unknown" ELSE location

\* The trackingEntry POST /tracking builds from a body at time t.
TrackingEntry(b, t) ==
  [trackingId |-> b.trackingId, parcelId |-> b.parcelId, status |-> b.status,
   location |-> LocationOrUnknown(b.location), timestamp |-> IsoOf(t)]

\* POST /tracking
RecordTracking(s) ==
  /\ reqs[s].pc = "h1"
  /\ reqs[s].handler = "recordTracking"
  /\ LET r == reqs[s]
         b == r.arg
     IN IF TrackingFieldMissing(b)
        THEN /\ reqs' = [reqs EXCEPT ![s] =
                           Respond(r, 400,
                                   "trackingId, parcelId, and status are required.",
                                   None)]
             /\ UNCHANGED <<tracking, oid>>
        ELSE /\ tracking' = Append(tracking, TrackingEntry(b, Now))
             /\ oid' = oid + 1
             /\ reqs' = [reqs EXCEPT ![s] =
                           Respond(r, 200, None,
                                   [success |-> TRUE, insertedId |-> oid + 1])]
  /\ UNCHANGED <<users, riders, parcels, payments, nreq>>

\* ------------------------------------------------------ store failures
\* error.message of the error a failing store call throws.
StoreError == "store call failed"

\* A catch block of POST /payments that undoes step 1: the parcel goes back to
\* unpaid before the error is answered.
RecordPaymentFailsUndoing(s) ==
  /\ reqs[s].pc \in {"h1", "h2", "h3"}
  /\ reqs[s].handler = "recordPayment"
  /\ \/ reqs[s].pc \in {"h2", "h3"}
     \/ /\ reqs[s].pc = "h1"
        /\ ~PaymentFieldMissing(reqs[s].arg)
        /\ ParseOid(reqs[s].arg.parcelId) # 0
  /\ LET i == IdxById(parcels, ParseOid(reqs[s].arg.parcelId))
     IN parcels' = IF i = 0 \/ reqs[s].pc = "h1" THEN parcels
                   ELSE [parcels EXCEPT ![i].status = "pending",
                                        ![i].payment_status = "unpaid"]
  /\ reqs' = [reqs EXCEPT ![s] =
                Respond(reqs[s], 500, "Payment processing failed",
                        [details |-> StoreError])]
  /\ UNCHANGED <<users, riders, payments, tracking, nreq, oid>>

\* POST /payments: one of its three store calls throws and the catch block
\* answers.  What the calls before it wrote stays written.
RecordPaymentFails(s) ==
  /\ reqs[s].pc \in {"h1", "h2", "h3"}
  /\ reqs[s].handler = "recordPayment"
  /\ \/ reqs[s].pc \in {"h2", "h3"}
     \/ /\ reqs[s].pc = "h1"
        /\ ~PaymentFieldMissing(reqs[s].arg)
        /\ ParseOid(reqs[s].arg.parcelId) # 0
  /\ reqs' = [reqs EXCEPT ![s] =
                Respond(reqs[s], 500, "Payment processing failed",
                        [details |-> StoreError])]
  /\ UNCHANGED <<store, nreq, oid>>

\* PATCH /riders/approve/:id: one of its three store calls throws and the
\* catch block answers.  What the calls before it wrote stays written.
ApproveRiderFails(s) ==
  /\ reqs[s].pc \in {"h1", "h2", "h3"}
  /\ reqs[s].handler = "approveRider"
  /\ \/ reqs[s].pc \in {"h2", "h3"}
     \/ reqs[s].pc = "h1" /\ ParseOid(reqs[s].arg.id) # 0
  /\ reqs' = [reqs EXCEPT ![s] =
                Respond(reqs[s], 500, "Failed to approve rider or update role",
                        [error |-> StoreError])]
  /\ UNCHANGED <<store, nreq, oid>>

\* ---------------------------------------------------- the initial store
\* A store that the routes themselves can have produced: an admin and a plain
\* user who logged in, a parcel and a rider application of the plain user, one
\* tracking event of the parcel.
SeedUsers ==
  << [email |-> "a@x", role |-> "admin", created_at |-> DateOf(0),
      last_login |-> DateOf(0)],
     [email |-> "b@x", role |-> None, created_at |-> DateOf(0),
      last_login |-> DateOf(0)] >>

SeedParcels ==
  << [_id |-> 1, created_by |-> "b@x", status |-> "pending",
      payment_status |-> "unpaid", transactionId |-> None,
      trackingId |-> "TRK1"] >>

SeedRiders == << [_id |-> 2, email |-> "b@x", status |-> "pending"] >>

SeedTracking ==
  << [trackingId |-> "TRK1", parcelId |-> "1", status |-> "created",
      location |-> "Unknown", timestamp |-> IsoOf(0)] >>

Init ==
  /\ users = SeedUsers
  /\ riders = SeedRiders
  /\ parcels = SeedParcels
  /\ payments = <<>>
  /\ tracking = SeedTracking
  /\ reqs = [s \in Slots |-> Idle]
  /\ nreq = 0
  /\ oid = 2

\* ------------------------------------------------- payment settlement
\* The requests of the payment settlement workflow.
PayBodies ==
  [parcelId : {"1", "3"}, transactionId : {"T1", "T2"}, email : {"b@x"},
   amount : {25}]
    \cup {[parcelId |-> "1", transactionId |-> None, email |-> "b@x", amount |-> 25],
          [parcelId |-> "1", transactionId |-> "T1", email |-> "b@x", amount |-> 0],
          [parcelId |-> "zz", transactionId |-> "T1", email |-> "b@x", amount |-> 25]}

PayRequests ==
  {[method |-> "POST", path |-> "/payments", hdr |-> Bearer("tok_b"), arg |-> b] :
     b \in PayBodies}
    \cup {[method |-> "POST", path |-> "/payments", hdr |-> h,
           arg |-> [parcelId |-> "1", transactionId |-> "T1", email |-> "b@x",
                    amount |-> 25]] :
            h \in {NoHeader, <<"Bearer">>, Bearer("forged")}}
    \cup {[method |-> "GET", path |-> "/payments", hdr |-> Bearer("tok_b"),
           arg |-> [email |-> e]] : e \in {"b@x", "c@x"}}
    \cup {[method |-> "DELETE", path |-> "/parcels/:id", hdr |-> NoHeader,
           arg |-> [id |-> "1"]]}
    \cup {[method |-> "POST", path |-> "/parcels", hdr |-> NoHeader,
           arg |-> [created_by |-> "b@x", status |-> "pending",
                    payment_status |-> "unpaid", transactionId |-> None,
                    trackingId |-> None]]}

PayStep(s) ==
  \/ VerifyFbToken(s)
  \/ RecordPayment1(s)
  \/ RecordPayment2(s)
  \/ RecordPayment3(s)
  \/ ListPayments(s)
  \/ CreateParcel(s)
  \/ DeleteParcel(s)

\* Requests of the payment workflow, suspending and interleaving at will.
PayNext ==
  \E s \in Slots :
    \/ \E q \in PayRequests : nreq < MaxPayReqs /\ Arrive(s, q)
    \/ PayStep(s)

SpecPay == Init /\ [][PayNext]_vars

\* Requests of the payment workflow made one after the other.
PaySeqNext ==
  \E s \in Slots :
    \/ \E q \in PayRequests : nreq < MaxPaySeqReqs /\ Quiet /\ Arrive(s, q)
    \/ PayStep(s)

SpecPaySeq == Init /\ [][PaySeqNext]_vars

\* -------------------------------------------------------- tracking log
\* The bodies of POST /tracking: complete ones with and without a location,
\* and ones that lack a required field or bring it empty.
TrackBodies ==
  [trackingId : {"TRK1"}, parcelId : {"1"}, status : {"picked"},
   location : {None, "", "Dhaka"}]
    \cup {[trackingId |-> None, parcelId |-> "1", status |-> "picked",
           location |-> "Dhaka"],
          [trackingId |-> "TRK1", parcelId |-> None, status |-> "picked",
           location |-> "Dhaka"],
          [trackingId |-> "TRK1", parcelId |-> "1", status |-> None,
           location |-> "Dhaka"],
          [trackingId |-> "TRK1", parcelId |-> "1", status |-> "",
           location |-> None]}

TrackRequests ==
  {[method |-> "POST", path |-> "/tracking", hdr |-> NoHeader, arg |-> b] :
     b \in TrackBodies}

\* The requests that pay for, create and delete parcels and list payments,
\* one of each.
ParcelRequests ==
  {q \in PayRequests :
     /\ q.hdr \in {NoHeader, Bearer("tok_b")}
     /\ q.method = "POST" /\ q.path = "/payments"
          => (q.hdr # NoHeader /\ q.arg.parcelId = "1" /\ q.arg.transactionId = "T1"
              /\ q.arg.amount = 25)
     /\ q.method = "GET" => q.arg.email = "b@x"}

\* Tracking events posted while the parcels they name are paid for, created
\* and deleted.
TrackNext ==
  \E s \in Slots :
    \/ \E q \in TrackRequests \cup ParcelRequests : nreq < MaxTrackReqs /\ Arrive(s, q)
    \/ RecordTracking(s)
    \/ PayStep(s)

SpecTrack == Init /\ [][TrackNext]_vars

\* ------------------------------------------- user and rider workflows
\* The admin-only operations, each with the parameters a request gives it.
AdminCalls ==
  { [method |-> "GET", path |-> "/users/search/:keyword", arg |-> [keyword |-> "B@"]],
    [method |-> "GET", path |-> "/users/role/:role", arg |-> [role |-> "Rider"]],
    [method |-> "PATCH", path |-> "/users/admin/:email", arg |-> [email |-> "b@x"]],
    [method |-> "PATCH", path |-> "/users/remove-admin/:email",
     arg |-> [email |-> "a@x"]],
    [method |-> "GET", path |-> "/riders/pending", arg |-> [k |-> None]],
    [method |-> "PATCH", path |-> "/riders/approve/:id", arg |-> [id |-> "2"]],
    [method |-> "DELETE", path |-> "/riders/cancel/:id", arg |-> [id |-> "2"]],
    [method |-> "PATCH", path |-> "/riders/deactivate/:id", arg |-> [id |-> "2"]] }

WithHeader(c, h) ==
  [method |-> c.method, path |-> c.path, hdr |-> h, arg |-> c.arg]

\* The requests of the user and rider workflows: every admin-only operation by
\* the admin, by a user who is no admin and by a caller without credentials;
\* further callers and parameters on some of them; logins, applications and
\* the list of active riders.
AdminRequests ==
  {WithHeader(c, h) :
     c \in AdminCalls, h \in {Bearer("tok_a"), Bearer("tok_b"), NoHeader}}
    \cup {WithHeader([method |-> "PATCH", path |-> "/users/admin/:email",
                      arg |-> [email |-> "b@x"]], h) :
            h \in {<<"Bearer">>, Bearer("forged"), Bearer("tok_c"),
                   Bearer("tok_anon")}}
    \cup {WithHeader(c, Bearer("tok_a")) :
            c \in {[method |-> "GET", path |-> "/users/role/:role",
                    arg |-> [role |-> "boss"]],
                   [method |-> "GET", path |-> "/users/search/:keyword",
                    arg |-> [keyword |-> "zz"]],
                   [method |-> "PATCH", path |-> "/riders/approve/:id",
                    arg |-> [id |-> "zz"]],
                   [method |-> "PATCH", path |-> "/riders/approve/:id",
                    arg |-> [id |-> "3"]]}}
    \cup {[method |-> "POST", path |-> "/users", hdr |-> NoHeader, arg |-> b] :
            b \in {[email |-> "c@x", role |-> None],
                   [email |-> "c@x", role |-> "admin"],
                   [email |-> "b@x", role |-> None]}}
    \cup {[method |-> "POST", path |-> "/riders", hdr |-> NoHeader, arg |-> b] :
            b \in {[email |-> "c@x", status |-> "pending"],
                   [email |-> None, status |-> None]}}
    \cup {[method |-> "GET", path |-> "/riders/active", hdr |-> h,
           arg |-> [k |-> None]] : h \in {NoHeader, Bearer("tok_a")}}

AdminStep(s) ==
  \/ VerifyFbToken(s)
  \/ VerifyAdmin(s)
  \/ UpsertLogin1(s)
  \/ UpsertLogin2(s)
  \/ SetAdmin(s)
  \/ ReadUsers(s)
  \/ ApplyRider(s)
  \/ ListRiders(s)
  \/ ApproveRider1(s)
  \/ ApproveRider2(s)
  \/ ApproveRider3(s)
  \/ CancelRider(s)
  \/ DeactivateRider(s)

\* Requests of the user and rider workflows, suspending and interleaving at will.
AdminNext ==
  \E s \in Slots :
    \/ \E q \in AdminRequests : nreq < MaxAdminReqs /\ Arrive(s, q)
    \/ AdminStep(s)

SpecAdmin == Init /\ [][AdminNext]_vars

\* Requests of the user and rider workflows made one after the other.
AdminSeqNext ==
  \E s \in Slots :
    \/ \E q \in AdminRequests : nreq < MaxAdminSeqReqs /\ Quiet /\ Arrive(s, q)
    \/ AdminStep(s)

SpecAdminSeq == Init /\ [][AdminSeqNext]_vars

\* --------------------------------------- workflows over a failing store
\* Requests of the payment workflow, each store call of POST /payments free
\* to fail.
PayFailNext ==
  \E s \in Slots :
    \/ \E q \in PayRequests : nreq < MaxPayFailReqs /\ Arrive(s, q)
    \/ PayStep(s)
    \/ RecordPaymentFails(s)

SpecPayFail == Init /\ [][PayFailNext]_vars

\* Requests of the user and rider workflows, each store call of
\* PATCH /riders/approve/:id free to fail.
RiderFailNext ==
  \E s \in Slots :
    \/ \E q \in AdminRequests : nreq < MaxRiderFailReqs /\ Arrive(s, q)
    \/ AdminStep(s)
    \/ ApproveRiderFails(s)

SpecRiderFail == Init /\ [][RiderFailNext]_vars

\* ======================================================= the properties
\* Slot s takes a step.
Moved(s) == reqs'[s] # reqs[s]

\* Slot s holds a request that is under way.
Running(s) == reqs[s].pc \notin {"idle", "done"}

\* Slot s holds a request for this handler that has been answered.
DoneBy(s, handler) == reqs[s].pc = "done" /\ reqs[s].handler = handler

\* The Conflict outcome of POST /payments.
Conflict(r) ==
  r.pc = "done" /\ r.status = 404 /\ r.msg = "Parcel not found or already paid."

\* Slot s is about to issue the updateOne of POST /payments (step 1).
AtPaymentUpdate(s) ==
  /\ reqs[s].pc = "h1"
  /\ reqs[s].handler = "recordPayment"
  /\ ~PaymentFieldMissing(reqs[s].arg)
  /\ ParseOid(reqs[s].arg.parcelId) # 0

\* The payment records of the parcel with this _id.
PaymentsOfParcel(id) ==
  {k \in 1 .. Len(payments) : ParseOid(payments[k].parcelId) = id}

\* C1: a POST /payments whose updateOne modifies no parcel ends with the
\* Conflict outcome and leaves the payments collection as it was; a request
\* goes on past step 1 only when its own updateOne modified a parcel, and only
\* such a request inserts a payment record.
C1_NoRecordWithoutModifiedParcel ==
  [][\A s \in Slots :
       /\ (AtPaymentUpdate(s) /\ Moved(s) /\ parcels' = parcels)
            => (Conflict(reqs'[s]) /\ payments' = payments)
       /\ (AtPaymentUpdate(s) /\ Moved(s) /\ reqs'[s].pc # "done")
            => (parcels' # parcels /\ reqs'[s].pc = "h2" /\ payments' = payments)
       /\ (Running(s) /\ Moved(s) /\ payments' # payments)
            => (/\ reqs[s].handler = "recordPayment"
                /\ reqs[s].pc = "h3"
                /\ reqs[s].loc.modifiedCount = 1)
       /\ (Running(s) /\ reqs[s].handler = "recordPayment" /\ Moved(s)
           /\ reqs'[s].pc = "h3")
            => (reqs[s].pc = "h2" /\ reqs'[s].loc.modifiedCount = 1)
    ]_vars

\* C1's case: a request was refused with Conflict for a parcel that is Paid
\* and has its payment record.
C1_Witness ==
  \E s \in Slots :
    /\ DoneBy(s, "recordPayment")
    /\ Conflict(reqs[s])
    /\ LET i == IdxById(parcels, ParseOid(reqs[s].arg.parcelId))
       IN i # 0 /\ parcels[i].status = "Paid"
    /\ Len(payments) = 1

\* C2: a POST /payments for a parcel that is missing or has status "Paid"
\* already, whatever transactionId it brings, returns Conflict and leaves the
\* size of the payments collection as it was.
C2_PaidOrMissingIsConflict ==
  [][\A s \in Slots :
       (/\ AtPaymentUpdate(s)
        /\ Moved(s)
        /\ LET i == IdxById(parcels, ParseOid(reqs[s].arg.parcelId))
           IN i = 0 \/ parcels[i].status = "Paid")
         => (Conflict(reqs'[s]) /\ Len(payments') = Len(payments))
    ]_vars

\* The email the identity verifier vouches for in a request's header.
Requester(r) ==
  IF Len(r.hdr) >= 2 /\ r.hdr[2] \in DOMAIN TokenClaims
  THEN TokenClaims[r.hdr[2]].email
  ELSE None

\* C3: GET /payments?email=query by a requester other than query returns
\* Forbidden and no payment record.
C3_OthersPaymentsForbidden ==
  \A s \in Slots :
    (DoneBy(s, "listPayments") /\ Requester(reqs[s]) # reqs[s].arg.email)
      => (reqs[s].status = 403 /\ reqs[s].data = None)

\* C9: each parcel has at most one payment record.
C9_OnePaymentPerParcel ==
  \A i \in 1 .. Len(parcels) : Cardinality(PaymentsOfParcel(parcels[i]._id)) <= 1

\* C10: POST /payments for a parcel that exists and is not Paid yet marks the
\* parcel (status, payment_status, transactionId), inserts exactly one payment
\* record with the request's parcelId and the parcel's trackingId ("" when it
\* has none) and answers with the new payment's id; the same call made again
\* right after it returns Conflict and inserts nothing.
C10_PaymentThenConflict ==
  [][\A s \in Slots :
       LET r == reqs[s]
           r2 == reqs'[s]
       IN /\ (/\ AtPaymentUpdate(s)
              /\ Moved(s)
              /\ LET i == IdxById(parcels, ParseOid(r.arg.parcelId))
                 IN i # 0 /\ parcels[i].status # "Paid")
               => LET i == IdxById(parcels, ParseOid(r.arg.parcelId))
                  IN /\ r2.pc = "h2"
                     /\ Len(parcels') = Len(parcels)
                     /\ parcels'[i].status = "Paid"
                     /\ parcels'[i].payment_status = "Paid"
                     /\ parcels'[i].transactionId = r.arg.transactionId
                     /\ parcels'[i].trackingId = parcels[i].trackingId
          /\ (Running(s) /\ r.handler = "recordPayment" /\ r.pc \in {"h2", "h3"}
              /\ Moved(s))
               => (/\ r2.pc = IF r.pc = "h2" THEN "h3" ELSE "done"
                   /\ r2.pc = "done" => r2.status = 200
                   /\ Len(payments') = Len(payments) + (IF r.pc = "h3" THEN 1 ELSE 0))
          /\ (r2.pc = "done" /\ r2.handler = "recordPayment" /\ r2.status = 200
              /\ Moved(s))
               => LET i == IdxById(parcels', ParseOid(r2.arg.parcelId))
                      p == payments'[Len(payments')]
                  IN /\ i # 0
                     /\ parcels'[i].status = "Paid"
                     /\ parcels'[i].payment_status = "Paid"
                     /\ parcels'[i].transactionId = r2.arg.transactionId
                     /\ payments' = Append(payments, p)
                     /\ p._id = r2.data
                     /\ \A k \in 1 .. Len(payments) : payments[k]._id # p._id
                     /\ p.parcelId = r2.arg.parcelId
                     /\ p.transactionId = r2.arg.transactionId
                     /\ p.email = r2.arg.email
                     /\ p.amount = r2.arg.amount
                     /\ p.trackingId = IF parcels'[i].trackingId = None THEN ""
                                       ELSE parcels'[i].trackingId
          /\ \A t \in Slots :
               (/\ DoneBy(t, "recordPayment")
                /\ reqs[t].status = 200
                /\ r2.pc = "done"
                /\ r2.handler = "recordPayment"
                /\ Moved(s)
                /\ r2.seq = reqs[t].seq + 1
                /\ r2.hdr = reqs[t].hdr
                /\ r2.arg = reqs[t].arg)
                 => (Conflict(r2) /\ payments' = payments
                     /\ payments[Len(payments)]._id = reqs[t].data)
    ]_vars

\* C10's case: a payment was recorded and the same call, made right after it,
\* was refused with Conflict.
C10_Witness ==
  \E s, t \in Slots :
    /\ DoneBy(t, "recordPayment")
    /\ reqs[t].status = 200
    /\ DoneBy(s, "recordPayment")
    /\ reqs[s].seq = reqs[t].seq + 1
    /\ reqs[s].hdr = reqs[t].hdr
    /\ reqs[s].arg = reqs[t].arg
    /\ Conflict(reqs[s])
    /\ Len(payments) = 1
    /\ payments[1].trackingId = "TRK1"

\* The admin-only operations.
AdminPaths ==
  {"/users/search/:keyword", "/users/role/:role", "/users/admin/:email",
   "/users/remove-admin/:email", "/riders/pending", "/riders/approve/:id",
   "/riders/cancel/:id", "/riders/deactivate/:id"}

\* The request's header carries a token the identity verifier accepts.
Authenticated(r) == Len(r.hdr) >= 2 /\ r.hdr[2] \in DOMAIN TokenClaims

\* The stored user of this email has the admin role.
StoredAdmin(email) ==
  LET i == IdxByEmail(users, email) IN i # 0 /\ users[i].role = "admin"

\* A user of this email is stored and its role is not admin.
StoredNonAdmin(email) ==
  LET i == IdxByEmail(users, email) IN i # 0 /\ users[i].role # "admin"

InHandler(r) == r.pc \in {"h1", "h2", "h3"}

\* C4: a request to an admin-only operation by a caller without valid
\* credentials, or whose stored role is not admin, is answered Unauthenticated
\* (401) or Forbidden (403) and changes none of the five collections; the
\* handler body is entered only from the middleware, after verifyFbToken has
\* set the verified claim and at the step at which verifyAdmin finds the
\* caller's stored role to be admin, and only the handler body changes the
\* store.
C4_AdminGate ==
  [][\A s \in Slots :
       LET r == reqs[s]
           r2 == reqs'[s]
       IN (Moved(s) /\ r2.pc # "idle" /\ r2.path \in AdminPaths)
            => /\ ~Running(s) => (r2.pc = "mw" /\ ~r2.decoded.set /\ store' = store)
               /\ (Running(s) /\ ~InHandler(r)) => store' = store
               /\ (Running(s) /\ ~InHandler(r) /\ InHandler(r2))
                    => (/\ r.pc = "mw"
                        /\ r.decoded.set
                        /\ Authenticated(r)
                        /\ r.decoded.email = Requester(r)
                        /\ StoredAdmin(r.decoded.email))
               /\ (Running(s) /\ ~Authenticated(r))
                    => (r2.pc = "done" /\ r2.status \in {401, 403})
               /\ (Running(s) /\ r.pc = "mw" /\ r.decoded.set
                   /\ (Requester(r) = None \/ StoredNonAdmin(Requester(r))))
                    => (r2.pc = "done" /\ r2.status \in {401, 403})
    ]_vars

\* C4's case: a stored user who is no admin asked for an admin-only operation,
\* was answered Forbidden, and the store is as it was.
C4_Witness ==
  \E s \in Slots :
    /\ reqs[s].pc = "done"
    /\ reqs[s].path = "/riders/approve/:id"
    /\ Requester(reqs[s]) = "b@x"
    /\ reqs[s].status = 403
    /\ reqs[s].msg = "Forbidden: Admins only"
    /\ store = <<SeedUsers, SeedRiders, SeedParcels, <<>>, SeedTracking>>

\* C5: GET /riders/active hands approved riders only to a caller who passed
\* the admin gate.
C5_ActiveRidersGated ==
  \A s \in Slots :
    (/\ reqs[s].pc = "done"
     /\ reqs[s].method = "GET"
     /\ reqs[s].path = "/riders/active"
     /\ reqs[s].status = 200
     /\ Len(reqs[s].data) > 0)
      => (Authenticated(reqs[s]) /\ reqs[s].decoded.set)

\* The user records of this email.
UsersOf(email) == {i \in 1 .. Len(users) : users[i].email = email}

\* C6: of two POST /users with the same email made one after the other, the
\* second answers {inserted: false} and leaves exactly one user record of that
\* email; the update of a login changes last_login of that record and nothing
\* else in the users collection.
C6_IdempotentLogin ==
  [][\A s \in Slots :
       LET r == reqs[s]
           r2 == reqs'[s]
       IN /\ (Running(s) /\ r.handler = "upsertLogin" /\ r.pc = "h2" /\ Moved(s)
              /\ r.loc.userExists)
               => LET i == IdxByEmail(users, r.arg.email)
                  IN /\ i # 0
                     /\ Len(users') = Len(users)
                     /\ \A j \in 1 .. Len(users) : j # i => users'[j] = users[j]
                     /\ users'[i].email = users[i].email
                     /\ users'[i].role = users[i].role
                     /\ users'[i].created_at = users[i].created_at
                     /\ users'[i].last_login = IsoOf(Now)
                     /\ DOMAIN users'[i] = DOMAIN users[i]
                     /\ r2.pc = "done"
                     /\ r2.status = 200
                     /\ r2.data = [inserted |-> FALSE]
          /\ \A t \in Slots :
               (/\ DoneBy(t, "upsertLogin")
                /\ r2.pc = "done"
                /\ r2.handler = "upsertLogin"
                /\ Moved(s)
                /\ r2.seq = reqs[t].seq + 1
                /\ r2.arg.email = reqs[t].arg.email)
                 => (/\ r2.status = 200
                     /\ r2.data = [inserted |-> FALSE]
                     /\ Cardinality({i \in 1 .. Len(users') :
                                       users'[i].email = r2.arg.email}) = 1)
    ]_vars

\* C6's case: a new user logged in twice in a row; the second login was
\* answered {inserted: false}.
C6_Witness ==
  \E s, t \in Slots :
    /\ DoneBy(t, "upsertLogin")
    /\ DoneBy(s, "upsertLogin")
    /\ reqs[s].seq = reqs[t].seq + 1
    /\ reqs[s].arg.email = "c@x"
    /\ reqs[t].arg.email = "c@x"
    /\ reqs[t].data = [acknowledged |-> TRUE]
    /\ reqs[s].data = [inserted |-> FALSE]
    /\ Cardinality(UsersOf("c@x")) = 1

\* C7: the users collection holds at most one record per email.
C7_OneUserPerEmail ==
  \A e \in Emails : Cardinality(UsersOf(e)) <= 1

\* C8: when PATCH /riders/approve/:id for an existing application with email E
\* is over, the application's status is "approved", the user of email E, if
\* there is one, has role "rider", and the call reports success; no step of an
\* approval adds or removes a user record.
C8_ApprovalPropagates ==
  [][\A s \in Slots :
       LET r == reqs[s]
           r2 == reqs'[s]
       IN /\ (Running(s) /\ r.handler = "approveRider" /\ Moved(s))
               => (/\ Len(users') = Len(users)
                   /\ \A j \in 1 .. Len(users) : users'[j].email = users[j].email
                   /\ Len(riders') = Len(riders))
          /\ (/\ InHandler(r)
              /\ r.handler = "approveRider"
              /\ Moved(s)
              /\ r2.pc = "done"
              /\ IdxById(riders', ParseOid(r.arg.id)) # 0)
               => LET i == IdxById(riders', ParseOid(r.arg.id))
                      E == riders'[i].email
                      j == IdxByEmail(users', E)
                  IN /\ riders'[i].status = "approved"
                     /\ r2.status = 200
                     /\ r2.data.success
                     /\ (E # None /\ j # 0) => users'[j].role = "rider"
    ]_vars

\* C8's case: an application whose email has no user record was approved, and
\* the call reported success.
C8_Witness ==
  \E s \in Slots :
    /\ DoneBy(s, "approveRider")
    /\ reqs[s].status = 200
    /\ LET i == IdxById(riders, ParseOid(reqs[s].arg.id))
       IN /\ i # 0
          /\ riders[i].email = "c@x"
          /\ riders[i].status = "approved"
    /\ UsersOf("c@x") = {}

\* Slot s is about to run the body of POST /tracking.
AtTracking(s) == reqs[s].pc = "h1" /\ reqs[s].handler = "recordTracking"

\* C11: a POST /tracking that lacks trackingId, parcelId or status (absent or
\* empty) is answered InvalidArgument (400) and leaves the tracking collection
\* as it was; one that has all three appends exactly one record with the
\* body's trackingId, parcelId and status, whose location is the supplied one,
\* or "Unknown" when none (or an empty one) is supplied; no step of any request
\* changes or removes a record the tracking collection holds already, and only
\* POST /tracking adds one.
C11_TrackingAppendOnly ==
  [][/\ Len(tracking') >= Len(tracking)
     /\ \A k \in 1 .. Len(tracking) : tracking'[k] = tracking[k]
     /\ tracking' # tracking => \E s \in Slots : AtTracking(s) /\ Moved(s)
     /\ \A s \in Slots :
          LET b == reqs[s].arg
              r2 == reqs'[s]
          IN (AtTracking(s) /\ Moved(s))
               => IF b.trackingId \in {None, ""} \/ b.parcelId \in {None, ""}
                     \/ b.status \in {None, ""}
                  THEN r2.pc = "done" /\ r2.status = 400 /\ tracking' = tracking
                  ELSE /\ Len(tracking') = Len(tracking) + 1
                       /\ LET e == tracking'[Len(tracking')]
                          IN /\ e.trackingId = b.trackingId
                             /\ e.parcelId = b.parcelId
                             /\ e.status = b.status
                             /\ e.location = IF b.location \in {None, ""}
                                             THEN "Unknown" ELSE b.location
                       /\ r2.pc = "done"
                       /\ r2.status = 200
    ]_vars

\* C11's case: an event without a location and an event with one were
\* recorded after the seeded event, whose parcel has been deleted since; the
\* seeded event is as it was.
C11_Witness ==
  /\ Len(tracking) = 3
  /\ tracking[1] = SeedTracking[1]
  /\ \E j, k \in 2 .. 3 :
       tracking[j].location = "Unknown" /\ tracking[k].location = "Dhaka"
  /\ parcels = <<>>
  /\ \E s \in Slots : DoneBy(s, "recordTracking") /\ reqs[s].status = 200

\* C12: an approval whose step a matched a rider and set its status leaves the
\* riders collection as it is in its later steps (b) and (c), whether they
\* succeed or fail, and its response reports the update result of step a.
C12_ApprovalReportsRiderResult ==
  [][\A s \in Slots :
       LET r == reqs[s]
           r2 == reqs'[s]
       IN (/\ Running(s)
           /\ r.handler = "approveRider"
           /\ r.pc \in {"h2", "h3"}
           /\ r.loc.riderResult.matchedCount = 1
           /\ Moved(s))
            => (/\ riders' = riders
                /\ r2.pc = "done"
                     => (/\ "riderResult" \in DOMAIN r2.data
                         /\ r2.data.riderResult = r.loc.riderResult))
    ]_vars

\* C13: the parcel read of POST /payments (step 2) comes after the request's
\* own update (step 1) and before its insert (step 3), and it finds the parcel
\* as step 1 left it, with status "Paid" and the request's transactionId, also
\* when other requests for the same parcel ran in between; the trackingId it
\* copies into the payment record is the trackingId of that parcel.
C13_ReadObservesOwnUpdate ==
  [][\A s \in Slots :
       LET r == reqs[s]
           r2 == reqs'[s]
           i == IdxById(parcels, ParseOid(r.arg.parcelId))
       IN (Running(s) /\ r.handler = "recordPayment" /\ r.pc = "h2" /\ Moved(s))
            => (/\ r.loc.modifiedCount = 1
                /\ r2.pc = "h3"
                /\ i # 0
                /\ parcels[i].status = "Paid"
                /\ parcels[i].transactionId = r.arg.transactionId
                /\ r2.loc.trackingId = IF parcels[i].trackingId = None THEN ""
                                       ELSE parcels[i].trackingId)
    ]_vars

\* A POST /payments past its step 1 ends with an error at this step.
PaymentFailsAfterUpdate(s) ==
  /\ Running(s)
  /\ reqs[s].handler = "recordPayment"
  /\ reqs[s].pc \in {"h2", "h3"}
  /\ Moved(s)
  /\ reqs'[s].pc = "done"
  /\ reqs'[s].status # 200

\* How far a request has come.
PcRank(pc) ==
  CASE pc = "mw" -> 1 [] pc = "h1" -> 2 [] pc = "h2" -> 3 [] pc = "h3" -> 4
    [] OTHER -> 5

BackwardOrSkipping ==
  {<<"inactive", "approved">>, <<"pending", "inactive">>,
   <<"approved", "pending">>, <<"inactive", "pending">>}

\* C15: no step takes a rider application from inactive back to approved, from
\* pending straight to inactive, or from approved or inactive back to pending.
C15_StatusOnlyForward ==
  [][\A i \in 1 .. Len(riders) : \A j \in 1 .. Len(riders') :
       riders'[j]._id = riders[i]._id
         => <<riders[i].status, riders'[j].status>> \notin BackwardOrSkipping
    ]_vars

\* C16: POST /riders appends one rider application, and its status is
\* "pending" whether the body brought that status or none; it is then among
\* the documents find({ status: "pending" }) of GET /riders/pending selects.
C16_ApplicationIsPending ==
  [][\A s \in Slots :
       (/\ reqs[s].pc = "h1"
        /\ reqs[s].handler = "applyRider"
        /\ reqs[s].arg.status \in {None, "pending"}
        /\ Moved(s))
         => (/\ Len(riders') = Len(riders) + 1
             /\ \A k \in 1 .. Len(riders) : riders'[k] = riders[k]
             /\ riders'[Len(riders')].status = "pending")
    ]_vars

\* Slot s holds a request that passed the admin gate and is at the store call
\* by which setRole or the rider approval writes a user's role.
AtGatedRoleWrite(s) ==
  /\ Running(s)
  /\ reqs[s].decoded.set
  /\ \/ reqs[s].handler \in {"makeAdmin", "removeAdmin"} /\ reqs[s].pc = "h1"
     \/ reqs[s].handler = "approveRider" /\ reqs[s].pc = "h3"

\* C17: a user record comes to have a role other than the default (absent or
\* "user"), by being created with it or by a change of its role, only at a
\* step of the admin-gated setRole or rider approval; POST /users creates no
\* user with an elevated role and leaves the role of an existing user alone.
C17_RolesOnlyThroughAdminGate ==
  [][/\ Len(users') >= Len(users)
     /\ \A j \in 1 .. Len(users') :
          (/\ users'[j].role \notin {None, "user"}
           /\ j <= Len(users) => users'[j].role # users[j].role)
            => \E s \in Slots : AtGatedRoleWrite(s) /\ Moved(s)
     /\ \A s \in Slots :
          (Running(s) /\ reqs[s].handler = "upsertLogin" /\ Moved(s))
            => \A j \in 1 .. Len(users) : users'[j].role = users[j].role
    ]_vars

\* C18: the step of DELETE /riders/cancel/:id removes the application of that
\* id, whatever its status, and nothing else; the step of
\* PATCH /riders/deactivate/:id sets the status of the application of that id
\* to "inactive" and changes nothing else; neither changes the users
\* collection, so a role "rider" set by an approval stays.
C18_CancelAndDeactivateFrame ==
  [][\A s \in Slots :
       LET r == reqs[s]
           r2 == reqs'[s]
           id == ParseOid(r.arg.id)
           i == IdxById(riders, id)
       IN /\ (Running(s) /\ r.handler = "cancelRider" /\ r.pc = "h1" /\ Moved(s))
               => (/\ users' = users
                   /\ <<parcels', payments', tracking'>> = <<parcels, payments, tracking>>
                   /\ IdxById(riders', id) = 0
                   /\ Len(riders') = Len(riders) - (IF i = 0 THEN 0 ELSE 1)
                   /\ \A k \in 1 .. Len(riders) :
                        riders[k]._id # id
                          => \E j \in 1 .. Len(riders') : riders'[j] = riders[k]
                   /\ r2.pc = "done"
                   /\ r2.status = 200
                   /\ r2.data.deletedCount = IF i = 0 THEN 0 ELSE 1)
          /\ (Running(s) /\ r.handler = "deactivateRider" /\ r.pc = "h1" /\ Moved(s)
              /\ id # 0)
               => (/\ users' = users
                   /\ <<parcels', payments', tracking'>> = <<parcels, payments, tracking>>
                   /\ Len(riders') = Len(riders)
                   /\ \A k \in 1 .. Len(riders) :
                        riders'[k] = IF riders[k]._id = id
                                     THEN [riders[k] EXCEPT !.status = "inactive"]
                                     ELSE riders[k]
                   /\ r2.pc = "done"
                   /\ r2.status = 200)
    ]_vars

\* C18's case: the application of b@x was approved, which made b@x a rider, and
\* was cancelled after that; the application is gone and b@x is still a rider.
C18_Witness ==
  \E s, t \in Slots :
    /\ DoneBy(t, "approveRider")
    /\ reqs[t].status = 200
    /\ reqs[t].data.riderResult.modifiedCount = 1
    /\ DoneBy(s, "cancelRider")
    /\ reqs[s].status = 200
    /\ reqs[s].arg.id = reqs[t].arg.id
    /\ reqs[s].data.deletedCount = 1
    /\ riders = <<>>
    /\ LET j == IdxByEmail(users, "b@x") IN j # 0 /\ users[j].role = "rider"

=============================================================================
